---- MODULE Spec2Model ----
(***************************************************************************)
(* A model of src/data_pipeline.py (class CryptoDataPipeline).             *)
(*                                                                         *)
(* Two specifications are given:                                           *)
(*   Spec          process_data applied to an arbitrary raw table          *)
(*   PipelineSpec  run_pipeline: the fetch loop, the no-data exit, the     *)
(*                 processing and the optional save                        *)
(*                                                                         *)
(* Floating-point values are modelled as exact rationals extended with the *)
(* two special values the code can produce from non-negative prices:       *)
(* NaN (pandas' null) and +inf.  A standard deviation is kept as the       *)
(* symbolic square root of its (rational) variance.                        *)
(***************************************************************************)
EXTENDS Integers, Sequences, FiniteSets, TLC

VARIABLES
    df,         \* the raw table handed to process_data (combined_df)
    out,        \* the table process_data returned (processed_df)
    pc,         \* where the call stands
    coins,      \* self.coins, the configured assets
    idx,        \* run_pipeline: the position in coins of the next fetch
    fetched,    \* run_pipeline: the coins fetch_historical_data was called for
    all_data,   \* run_pipeline: the frames collected so far
    result,     \* run_pipeline: what the call returned or raised
    processed,  \* run_pipeline: the number of calls of process_data
    saved,      \* run_pipeline: the number of calls of save_data
    save        \* run_pipeline: the save argument

vars ==
    <<df, out, pc, coins, idx, fetched, all_data, result, processed, saved, save>>

(***************************************************************************)
(* Bounds of the model.                                                    *)
(***************************************************************************)
MaxRows == 3
MaxLong == 32
MaxFrame == 2

Dates == {1, 2, 3}
Prices == {0, 1, 2}

(***************************************************************************)
(* Program constants.                                                      *)
(***************************************************************************)
Coins == <<"bitcoin", "ethereum">>
Window7 == 7
Window30 == 30
MinPeriods == 1

(***************************************************************************)
(* Extended rational arithmetic (the float64 values of the frame).         *)
(***************************************************************************)
RECURSIVE Gcd(_, _)
Gcd(a, b) == IF b = 0 THEN a ELSE Gcd(b, a % b)

Abs(a) == IF a < 0 THEN -a ELSE a

NaN == [k |-> "nan", n |-> 0, d |-> 1]
Inf == [k |-> "inf", n |-> 0, d |-> 1]

Fin(a, b) ==
    LET s == IF b < 0 THEN -1 ELSE 1
        g == Gcd(Abs(a), Abs(b))
    IN [k |-> "f", n |-> (s * a) \div g, d |-> (s * b) \div g]

Num(a) == [k |-> "f", n |-> a, d |-> 1]

IsNaN(x) == x.k = "nan"
IsInf(x) == x.k = "inf"

\* x + y on float64: NaN is absorbing, inf + finite = inf.
FAdd(x, y) ==
    IF IsNaN(x) \/ IsNaN(y) THEN NaN
    ELSE IF IsInf(x) \/ IsInf(y) THEN Inf
    ELSE LET l == (x.d * y.d) \div Gcd(x.d, y.d)
         IN Fin(x.n * (l \div x.d) + y.n * (l \div y.d), l)

FNeg(x) == IF x.k = "f" THEN [x EXCEPT !.n = -x.n] ELSE NaN

\* x - y for a finite y.
FSub(x, y) == FAdd(x, FNeg(y))

\* x * y on float64: NaN is absorbing, inf * 0 = NaN, inf * positive = inf.
FMul(x, y) ==
    IF IsNaN(x) \/ IsNaN(y) THEN NaN
    ELSE IF IsInf(x) THEN (IF IsInf(y) \/ y.n > 0 THEN Inf ELSE NaN)
    ELSE IF IsInf(y) THEN (IF x.n > 0 THEN Inf ELSE NaN)
    ELSE LET g1 == Gcd(Abs(x.n), y.d)
             g2 == Gcd(Abs(y.n), x.d)
         IN Fin((x.n \div g1) * (y.n \div g2), (x.d \div g2) * (y.d \div g1))

\* x / y on float64 for non-negative finite operands (or NaN):
\* 0/0 = NaN, positive/0 = inf.
FDiv(x, y) ==
    IF IsNaN(x) \/ IsNaN(y) THEN NaN
    ELSE IF y.n = 0 THEN (IF x.n = 0 THEN NaN ELSE Inf)
    ELSE FMul(x, Fin(y.d, y.n))

\* numpy sqrt of a variance, kept symbolic.
FSqrt(x) == IF x.k = "f" THEN [x EXCEPT !.k = "sqrt"] ELSE x

(***************************************************************************)
(* Tables.  A raw row is [date, coin, price, volume, market_cap]; a table  *)
(* is a sequence of rows; a column (Series) is a sequence of values        *)
(* aligned with the table.                                                 *)
(***************************************************************************)
\* A function on 1..n held as a sequence value.
AsSeq(f) == f \o <<>>

Row(dt, c, p, v, m) ==
    [date |-> dt, coin |-> c, price |-> p, volume |-> v, market_cap |-> m]

SameKey(r1, r2) == r1.date = r2.date /\ r1.coin = r2.coin

\* t[mask]: boolean-mask indexing, the kept rows in their original order.
BoolIndex(t, mask) ==
    LET rank == AsSeq([i \in 1..Len(t) |-> Cardinality({j \in 1..i : mask[j]})])
        m == IF Len(t) = 0 THEN 0 ELSE rank[Len(t)]
    IN AsSeq([k \in 1..m |->
                 t[CHOOSE i \in 1..Len(t) : mask[i] /\ rank[i] = k]])

\* Mutant of Duplicated: keep='last', the later occurrence of a key survives.
DuplicatedKeepLast(t) ==
    AsSeq([i \in 1..Len(t) |->
              \E j \in (i + 1)..Len(t) : SameKey(t[j], t[i])])

\* DataFrame.duplicated(subset=['date', 'coin'], keep='first').
Duplicated(t) ==
    AsSeq([i \in 1..Len(t) |-> \E j \in 1..(i - 1) : SameKey(t[j], t[i])])

\* df.drop_duplicates(subset=['date', 'coin'])
DropDuplicates(t) ==
    LET dup == Duplicated(t)
    IN BoolIndex(t, AsSeq([i \in 1..Len(t) |-> ~dup[i]]))

\* The place of row i of t in a stable ascending sort by date.
StablePos(t, i) ==
    Cardinality({j \in 1..Len(t) :
                    \/ t[j].date < t[i].date
                    \/ (t[j].date = t[i].date /\ j <= i)})

\* The stable ascending order of t by date, as the sequence of row indices.
StableOrder(t) ==
    AsSeq([k \in 1..Len(t) |-> CHOOSE i \in 1..Len(t) : StablePos(t, i) = k])

\* The dates that several rows of t share.
TiedDates(t) ==
    {t[i].date : i \in {i \in 1..Len(t) :
                           \E j \in 1..Len(t) : j # i /\ t[j].date = t[i].date}}

\* The bijections of a finite set onto itself.
PermsOf(K) == {p \in [K -> K] : \A a, b \in K : a # b => p[a] # p[b]}

\* The orders got from order o by rearranging, for every date of D, the rows
\* of that date among their places.
RECURSIVE TieOrders(_, _, _)
TieOrders(t, o, D) ==
    IF D = {} THEN {o}
    ELSE LET d == CHOOSE x \in D : \A y \in D : x <= y
             K == {k \in 1..Len(o) : t[o[k]].date = d}
         IN UNION {TieOrders(t,
                             AsSeq([k \in 1..Len(o) |->
                                       IF k \in K THEN o[p[k]] ELSE o[k]]),
                             D \ {d}) : p \in PermsOf(K)}

\* df.sort_values('date').reset_index(drop=True): the possible results.  The
\* sort (kind='quicksort') is not stable: rows of equal date may come out in
\* any order.
SortValues(t) ==
    {AsSeq([k \in 1..Len(t) |-> t[o[k]]]) :
        o \in TieOrders(t, StableOrder(t), TiedDates(t))}

(***************************************************************************)
(* groupby('coin')[column]: one Series per coin, in table order, and       *)
(* transform's re-alignment of the per-group results with the table.       *)
(***************************************************************************)
\* The group keys: the distinct coins of t, as a sequence.
GroupKeys(t) ==
    BoolIndex(AsSeq([i \in 1..Len(t) |-> t[i].coin]),
              AsSeq([i \in 1..Len(t) |->
                        \A j \in 1..(i - 1) : t[j].coin # t[i].coin]))

\* Mutant of GroupMask: every row belongs to every group (no grouping).
GroupMaskAll(t, c) == AsSeq([i \in 1..Len(t) |-> TRUE])

GroupMask(t, c) == AsSeq([i \in 1..Len(t) |-> t[i].coin = c])

\* The values of column col on the rows of coin c, in table order.
GroupSeries(t, col, c) == BoolIndex(col, GroupMask(t, c))

\* The position of row i within the group of its coin.
GroupPos(t, i) == Cardinality({j \in 1..i : t[j].coin = t[i].coin})

\* The per-group results res (one Series per key of keys) put back at the
\* rows' places.
Realign(t, keys, res) ==
    AsSeq([i \in 1..Len(t) |->
              res[CHOOSE k \in 1..Len(keys) : keys[k] = t[i].coin][GroupPos(t, i)]])


\* Series.shift(1)
Shift(x) == AsSeq([i \in 1..Len(x) |-> IF i = 1 THEN NaN ELSE x[i - 1]])

\* Series.pct_change(): x / x.shift(1) - 1
PctChange(x) ==
    LET sh == Shift(x)
    IN AsSeq([i \in 1..Len(x) |-> FSub(FDiv(x[i], sh[i]), Num(1))])

\* Mutant of GroupPctChange: df['price'].pct_change(), the change against the
\* preceding row of the table whatever its coin.
UngroupedPctChange(t, col) == PctChange(col)

\* df.groupby('coin')['price'].pct_change()
GroupPctChange(t, col) ==
    LET keys == GroupKeys(t)
    IN Realign(t, keys,
               AsSeq([k \in 1..Len(keys) |->
                         PctChange(GroupSeries(t, col, keys[k]))]))

(***************************************************************************)
(* Series.rolling(window, min_periods): pandas' sliding aggregations.      *)
(***************************************************************************)
\* Rolling._prep_values: infinite values are turned into NaN.
PrepValues(x) ==
    AsSeq([i \in 1..Len(x) |-> IF IsInf(x[i]) THEN NaN ELSE x[i]])

\* Mutant of Leaving: the window keeps one row too many.
LeavingOffByOne(i, window) == IF i - window - 1 >= 1 THEN i - window - 1 ELSE 0

\* The row that leaves the window when row i enters (0: none).
Leaving(i, window) == IF i - window >= 1 THEN i - window ELSE 0

\* roll_mean: add_mean / remove_mean on (sum_x, nobs).
AddMean(a, v) ==
    IF IsNaN(v) THEN a ELSE [sum |-> FAdd(a.sum, v), nobs |-> a.nobs + 1]

RemoveMean(a, v) ==
    IF IsNaN(v) THEN a ELSE [sum |-> FSub(a.sum, v), nobs |-> a.nobs - 1]

MeanStep(a, v, i, window) ==
    LET b == AddMean(a, v[i])
        l == Leaving(i, window)
    IN IF l = 0 THEN b ELSE RemoveMean(b, v[l])

CalcMean(a, minp) ==
    IF a.nobs >= minp /\ a.nobs > 0 THEN FDiv(a.sum, Num(a.nobs)) ELSE NaN

\* The loop of roll_mean from row i on: a is the running (sum_x, nobs), acc
\* the output so far.
RECURSIVE RollMeanFrom(_, _, _, _, _, _)
RollMeanFrom(v, window, minp, i, a, acc) ==
    IF i > Len(v) THEN acc
    ELSE LET b == MeanStep(a, v, i, window)
         IN RollMeanFrom(v, window, minp, i + 1, b,
                         Append(acc, CalcMean(b, minp)))

\* x.rolling(window=window, min_periods=minp).mean()
RollingMean(x, window, minp) ==
    RollMeanFrom(PrepValues(x), window, minp, 1,
                 [sum |-> Num(0), nobs |-> 0], <<>>)

\* roll_var: Welford's add_var / remove_var on (nobs, mean_x, ssqdm_x).
AddVar(a, val) ==
    IF IsNaN(val) THEN a
    ELSE LET n == a.nobs + 1
             delta == FSub(val, a.mean)
             mean == FAdd(a.mean, FDiv(delta, Num(n)))
         IN [nobs |-> n, mean |-> mean,
             ssqdm |-> FAdd(a.ssqdm, FMul(FSub(val, mean), delta))]

RemoveVar(a, val) ==
    IF IsNaN(val) THEN a
    ELSE IF a.nobs = 1 THEN [nobs |-> 0, mean |-> Num(0), ssqdm |-> Num(0)]
    ELSE LET n == a.nobs - 1
             delta == FSub(val, a.mean)
             mean == FSub(a.mean, FDiv(delta, Num(n)))
         IN [nobs |-> n, mean |-> mean,
             ssqdm |-> FSub(a.ssqdm, FMul(FSub(val, mean), delta))]

VarStep(a, v, i, window) ==
    LET b == AddVar(a, v[i])
        l == Leaving(i, window)
    IN IF l = 0 THEN b ELSE RemoveVar(b, v[l])

\* calc_var with ddof = 1.
CalcVar(a, minp) ==
    IF a.nobs >= minp /\ a.nobs > 1
    THEN FDiv(a.ssqdm, Num(a.nobs - 1))
    ELSE NaN

\* The loop of roll_var from row i on, followed by the square root.
RECURSIVE RollStdFrom(_, _, _, _, _, _)
RollStdFrom(v, window, minp, i, a, acc) ==
    IF i > Len(v) THEN acc
    ELSE LET b == VarStep(a, v, i, window)
         IN RollStdFrom(v, window, minp, i + 1, b,
                        Append(acc, FSqrt(CalcVar(b, minp))))

\* x.rolling(window=window, min_periods=minp).std()
RollingStd(x, window, minp) ==
    RollStdFrom(PrepValues(x), window, minp, 1,
                [nobs |-> 0, mean |-> Num(0), ssqdm |-> Num(0)], <<>>)

\* (1 + x).cumprod(): NaN entries are skipped by the running product and
\* stay NaN in the result (skipna=True).
RECURSIVE CumProdFrom(_, _, _, _)
CumProdFrom(y, i, prod, acc) ==
    IF i > Len(y) THEN acc
    ELSE IF IsNaN(y[i]) THEN CumProdFrom(y, i + 1, prod, Append(acc, NaN))
    ELSE LET q == FMul(prod, y[i])
         IN CumProdFrom(y, i + 1, q, Append(acc, q))

CumProd1p(x) ==
    CumProdFrom(AsSeq([i \in 1..Len(x) |-> FAdd(Num(1), x[i])]), 1, Num(1), <<>>)

\* The lambdas handed to transform.
Ma7(x) == RollingMean(x, Window7, MinPeriods)
Ma30(x) == RollingMean(x, Window30, MinPeriods)
Vol30(x) == RollingStd(x, Window30, MinPeriods)

\* df.groupby('coin')[col].transform(lambda): the lambda applied to the
\* Series of every group, the results put back at the rows' places.
TransformMa7(t, col) ==
    LET keys == GroupKeys(t)
    IN Realign(t, keys,
               AsSeq([k \in 1..Len(keys) |-> Ma7(GroupSeries(t, col, keys[k]))]))

TransformMa30(t, col) ==
    LET keys == GroupKeys(t)
    IN Realign(t, keys,
               AsSeq([k \in 1..Len(keys) |-> Ma30(GroupSeries(t, col, keys[k]))]))

TransformVol30(t, col) ==
    LET keys == GroupKeys(t)
    IN Realign(t, keys,
               AsSeq([k \in 1..Len(keys) |-> Vol30(GroupSeries(t, col, keys[k]))]))

TransformCumProd(t, col) ==
    LET keys == GroupKeys(t)
    IN Realign(t, keys,
               AsSeq([k \in 1..Len(keys) |->
                         CumProd1p(GroupSeries(t, col, keys[k]))]))

PriceColumn(t) == AsSeq([i \in 1..Len(t) |-> Num(t[i].price)])

\* The five derived columns added to a deduplicated, sorted table.
WithFeatures(t) ==
    LET price == PriceColumn(t)
        daily_return == GroupPctChange(t, price)
        ma_7 == TransformMa7(t, price)
        ma_30 == TransformMa30(t, price)
        volatility_30d == TransformVol30(t, daily_return)
        cumulative_return == TransformCumProd(t, daily_return)
    IN AsSeq([i \in 1..Len(t) |->
           [date |-> t[i].date, coin |-> t[i].coin, price |-> t[i].price,
            volume |-> t[i].volume, market_cap |-> t[i].market_cap,
            daily_return |-> daily_return[i], ma_7 |-> ma_7[i],
            ma_30 |-> ma_30[i], volatility_30d |-> volatility_30d[i],
            cumulative_return |-> cumulative_return[i]]])

\* Mutant of ProcessDataResults: the result is put together group by group
\* (as groupby(...).apply would), not in the order of the sorted table.
ProcessDataGrouped(t) ==
    {LET w == WithFeatures(s)
         keys == GroupKeys(s)
         parts == AsSeq([k \in 1..Len(keys) |->
                            BoolIndex(w, GroupMask(s, keys[k]))])
     IN IF Len(keys) = 2 THEN parts[1] \o parts[2]
        ELSE IF Len(keys) = 1 THEN parts[1] ELSE <<>> :
        s \in SortValues(DropDuplicates(t))}

\* The tables process_data(t) can return.
ProcessDataResults(t) == {WithFeatures(s) : s \in SortValues(DropDuplicates(t))}


(***************************************************************************)
(* Inputs of process_data.                                                 *)
(***************************************************************************)
CoinSet == {Coins[i] : i \in 1..Len(Coins)}

\* Row i of a raw table carries volume and market cap values of its own, so
\* that the row a price came from can be told from the output.
VolumeAt(i) == 2 * i
MarketCapAt(i) == 2 * i + 1

\* The table whose i-th row has the date, coin and price f[i].
SmallTable(f, n) ==
    AsSeq([i \in 1..n |-> Row(f[i][1], f[i][2], f[i][3],
                              VolumeAt(i), MarketCapAt(i))])

\* df is any table of 1..MaxRows rows over the given dates, coins and prices,
\* in any order and with any pattern of duplicate keys.  process_data only
\* compares dates and only compares coins for equality, so one table stands
\* for each class of tables alike up to a renaming of the coins and an
\* order-preserving renaming of the dates: the one whose first row is of
\* Coins[1] and whose dates are 1..m.
IsSmallTable(t) ==
    \E n \in 1..MaxRows :
        \E f \in [1..n -> Dates \X CoinSet \X Prices] :
            /\ f[1][2] = Coins[1]
            /\ LET used == {f[i][1] : i \in 1..n}
               IN used = 1..Cardinality(used)
            /\ t = SmallTable(f, n)

\* Periodic price series, for the long tables.
Patterns == {<<1, 2>>, <<2, 1, 1, 3>>, <<3, 1, 2>>, <<1, 0, 2, 2, 2, 0, 0, 1>>}
PatternB == <<1, 3, 2>>

PriceAt(pat, i) == pat[((i - 1) % Len(pat)) + 1]

\* A long table: n rows of Coins[1] at the even dates and, when both, n rows
\* of Coins[2] at the odd dates in between.  The per-coin frames come
\* concatenated as run_pipeline does ("concat"), in the reverse of that
\* ("reversed"), or row by row in turn, the second coin's latest first
\* ("mixed").
LongTable(n, pat, both, order) ==
    LET a == AsSeq([i \in 1..n |-> Row(2 * i, Coins[1], PriceAt(pat, i), 0, 0)])
        b == AsSeq([i \in 1..n |->
                       Row(2 * i + 1, Coins[2], PriceAt(PatternB, i), 0, 0)])
        c == IF both THEN a \o b ELSE a
        o == IF order = "reversed"
             THEN AsSeq([i \in 1..Len(c) |-> c[Len(c) + 1 - i]])
             ELSE IF order = "mixed" /\ both
             THEN AsSeq([i \in 1..(2 * n) |->
                            IF i % 2 = 1 THEN a[(i + 1) \div 2]
                            ELSE b[n + 1 - (i \div 2)]])
             ELSE c
    IN AsSeq([i \in 1..Len(o) |->
           [o[i] EXCEPT !.volume = VolumeAt(i), !.market_cap = MarketCapAt(i)]])

LongLens == {Window7 + 1, Window30, MaxLong}

LongTables ==
    {LongTable(n, pat, both, order) :
        n \in LongLens, pat \in Patterns, both \in BOOLEAN,
        order \in {"concat", "reversed", "mixed"}}

None == <<>>

(***************************************************************************)
(* Spec: process_data(df) called on a raw table.                           *)
(***************************************************************************)
Init ==
    /\ (IsSmallTable(df) \/ df \in LongTables)
    /\ out = None
    /\ pc = "start"
    /\ coins = Coins
    /\ idx = 0
    /\ fetched = <<>>
    /\ all_data = <<>>
    /\ result = "pending"
    /\ processed = 0
    /\ saved = 0
    /\ save = FALSE

ProcessData ==
    /\ pc = "start"
    /\ \E r \in ProcessDataResults(df) : out' = r
    /\ pc' = "done"
    /\ UNCHANGED <<df, coins, idx, fetched, all_data, result, processed, saved,
                   save>>

Next == ProcessData

Spec == Init /\ [][Next]_vars


(***************************************************************************)
(* PipelineSpec: run_pipeline(days, save).                                 *)
(***************************************************************************)
\* The asset lists the pipeline is configured with.
CoinLists == {SubSeq(Coins, 1, n) : n \in 0..Len(Coins)}

\* The frame fetch_historical_data builds from a well-formed payload: one
\* row for each timestamp of D, in ascending order, priced by p.
FrameOf(c, D, p) ==
    LET dates == AsSeq([k \in 1..Cardinality(D) |->
                           CHOOSE d \in D : Cardinality({e \in D : e <= d}) = k])
    IN AsSeq([i \in 1..Len(dates) |->
                 Row(dates[i], c, p[dates[i]], VolumeAt(i), MarketCapAt(i))])

\* pd.concat(frames, ignore_index=True)
RECURSIVE Concat(_)
Concat(frames) ==
    IF frames = <<>> THEN <<>> ELSE Head(frames) \o Concat(Tail(frames))

PipelineInit ==
    /\ coins \in CoinLists
    /\ save \in BOOLEAN
    /\ pc = "fetch"
    /\ idx = 1
    /\ fetched = <<>>
    /\ all_data = <<>>
    /\ result = "pending"
    /\ processed = 0
    /\ saved = 0
    /\ df = None
    /\ out = None

\* One turn of the loop: the request succeeds with a payload holding the
\* three series, and the frame is appended.
FetchOk ==
    /\ pc = "fetch"
    /\ idx <= Len(coins)
    /\ \E D \in SUBSET Dates :
          /\ D # {}
          /\ Cardinality(D) <= MaxFrame
          /\ \E p \in [D -> Prices] :
                all_data' = Append(all_data, FrameOf(coins[idx], D, p))
    /\ fetched' = Append(fetched, coins[idx])
    /\ idx' = idx + 1
    /\ UNCHANGED <<df, out, pc, coins, result, processed, saved, save>>

\* One turn of the loop: requests.get or raise_for_status raises a
\* RequestException (network failure, non-2xx status); the handler returns
\* None and the asset is skipped.
FetchRequestException ==
    /\ pc = "fetch"
    /\ idx <= Len(coins)
    /\ fetched' = Append(fetched, coins[idx])
    /\ idx' = idx + 1
    /\ UNCHANGED <<df, out, pc, coins, all_data, result, processed, saved, save>>

\* One turn of the loop: the payload lacks one of 'prices', 'total_volumes',
\* 'market_caps'.  The subscript raises KeyError, which the handler for
\* RequestException does not catch: it leaves fetch_historical_data and
\* run_pipeline.
FetchMalformedPayload ==
    /\ pc = "fetch"
    /\ idx <= Len(coins)
    /\ fetched' = Append(fetched, coins[idx])
    /\ pc' = "raised"
    /\ result' = "KeyError"
    /\ UNCHANGED <<df, out, coins, idx, all_data, processed, saved, save>>

\* After the loop, nothing was collected: "No data fetched successfully".
ReturnNoData ==
    /\ pc = "fetch"
    /\ idx > Len(coins)
    /\ all_data = <<>>
    /\ pc' = "returned"
    /\ result' = "None"
    /\ UNCHANGED <<df, out, coins, idx, fetched, all_data, processed, saved, save>>

\* After the loop: concatenate, process, save if asked, return the table.
ReturnProcessed ==
    /\ pc = "fetch"
    /\ idx > Len(coins)
    /\ all_data # <<>>
    /\ df' = Concat(all_data)
    /\ \E r \in ProcessDataResults(Concat(all_data)) : out' = r
    /\ processed' = processed + 1
    /\ saved' = IF save THEN saved + 1 ELSE saved
    /\ pc' = "returned"
    /\ result' = "table"
    /\ UNCHANGED <<coins, idx, fetched, all_data, save>>

PipelineNext ==
    \/ FetchOk
    \/ FetchRequestException
    \/ FetchMalformedPayload
    \/ ReturnNoData
    \/ ReturnProcessed

PipelineSpec == PipelineInit /\ [][PipelineNext]_vars

(***************************************************************************)
(* What the properties are stated with.  These definitions read only the    *)
(* input table df and the returned table out, by key and by date, and use   *)
(* none of the operators that model process_data.                           *)
(***************************************************************************)
Done == pc = "done"

Rows(t) == 1..Len(t)

\* The rows of t of the same coin as row i and of an earlier date.
Earlier(t, i) == {j \in Rows(t) : t[j].coin = t[i].coin /\ t[j].date < t[i].date}

\* The row of S with the latest date.
Latest(t, S) == CHOOSE j \in S : \A k \in S : t[k].date <= t[j].date

\* The number of rows of the coin of row i dated no later than row i: the
\* 1-based position of row i in its asset's date-sorted series.
DateRank(t) ==
    AsSeq([i \in Rows(t) |->
              Cardinality({j \in Rows(t) :
                              t[j].coin = t[i].coin /\ t[j].date <= t[i].date})])

\* The trailing window of k rows of its asset that ends at row i.
Window(t, rk, i, k) ==
    {j \in Rows(t) : t[j].coin = t[i].coin /\ rk[j] <= rk[i] /\ rk[j] > rk[i] - k}

AssetPositive(t, c) == \A j \in Rows(t) : t[j].coin = c => t[j].price > 0

\* The first row of df with the key of row i.
FirstOccurrence(t, i) ==
    CHOOSE j \in Rows(t) :
        /\ SameKey(t[j], t[i])
        /\ \A k \in Rows(t) : SameKey(t[k], t[i]) => j <= k

(***************************************************************************)
(* C2: the output has exactly one row for each (date, coin) key of the      *)
(* input and no other row; the row kept for a key is its first occurrence   *)
(* in the input, with price, volume and market_cap unchanged.               *)
(***************************************************************************)
C2_DedupKeepsFirst ==
    Done =>
        /\ \A i \in Rows(df) :
              LET hits == {k \in Rows(out) : SameKey(out[k], df[i])}
                  f == FirstOccurrence(df, i)
              IN /\ Cardinality(hits) = 1
                 /\ \A k \in hits :
                       /\ out[k].price = df[f].price
                       /\ out[k].volume = df[f].volume
                       /\ out[k].market_cap = df[f].market_cap
        /\ \A k \in Rows(out) : \E i \in Rows(df) : SameKey(out[k], df[i])

\* A key occurs twice in the input with different prices, and the output is
\* shorter than the input.
C2_Witness ==
    /\ Done
    /\ Len(out) < Len(df)
    /\ \E i, j \in Rows(df) :
          i < j /\ SameKey(df[i], df[j]) /\ df[i].price # df[j].price

(***************************************************************************)
(* C3: daily_return is price[i]/price[i-1] - 1 against the preceding row of *)
(* the same asset by date, null on the first row of every asset and, when   *)
(* the asset's prices are positive, on no other row.                        *)
(***************************************************************************)
C3_DailyReturn ==
    Done =>
        \A i \in Rows(out) :
            LET E == Earlier(out, i)
            IN IF E = {}
               THEN IsNaN(out[i].daily_return)
               ELSE LET j == Latest(out, E)
                    IN /\ out[i].daily_return =
                              FSub(FDiv(Num(out[i].price), Num(out[j].price)),
                                   Num(1))
                       /\ AssetPositive(out, out[i].coin)
                              => out[i].daily_return.k = "f"

\* A row of another asset lies between two rows of an asset, whose prices
\* differ, and the later one has a return other than the one against the
\* row in between.
C3_Witness ==
    /\ Done
    /\ \E i, j, k \in Rows(out) :
          /\ i < j /\ j < k
          /\ out[i].coin = out[k].coin /\ out[j].coin # out[i].coin
          /\ out[i].date < out[j].date /\ out[j].date < out[k].date
          /\ Earlier(out, k) # {} /\ Latest(out, Earlier(out, k)) = i
          /\ out[i].price > 0 /\ out[j].price > 0
          /\ out[i].price # out[j].price
          /\ out[k].daily_return.k = "f" /\ out[k].daily_return.n # 0

(***************************************************************************)
(* C6: the dates of the output are non-decreasing across the whole table    *)
(* (assets interleaved by date, not grouped), and strictly increasing       *)
(* within one asset.                                                        *)
(***************************************************************************)
C6_GlobalDateOrder ==
    Done =>
        \A i, j \in Rows(out) :
            i < j => /\ out[i].date <= out[j].date
                     /\ out[i].coin = out[j].coin => out[i].date < out[j].date

\* The input came grouped by asset and out of date order; in the output a
\* row of one asset stands between two rows of the other.
C6_Witness ==
    /\ Done
    /\ \E i, j \in Rows(df) : i < j /\ df[i].date > df[j].date
    /\ \E i, j, k \in Rows(out) :
          /\ i < j /\ j < k
          /\ out[i].coin = out[k].coin /\ out[j].coin # out[i].coin
          /\ out[i].date < out[j].date /\ out[j].date < out[k].date


(***************************************************************************)
(* C4: ma_7 and ma_30 are the mean of the asset's prices over the trailing  *)
(* window of at most 7 (30) rows ending at the row: never null, shrinking   *)
(* to the rows available, never more than k rows, never another asset's.    *)
(***************************************************************************)
RECURSIVE SumPrices(_, _)
SumPrices(t, S) ==
    IF S = {} THEN 0
    ELSE LET j == CHOOSE j \in S : TRUE
         IN t[j].price + SumPrices(t, S \ {j})

MeanPrice(t, S) == Fin(SumPrices(t, S), Cardinality(S))

C4_MovingAverages ==
    Done =>
        LET rk == DateRank(out)
        IN \A i \in Rows(out) :
              /\ out[i].ma_7 = MeanPrice(out, Window(out, rk, i, Window7))
              /\ out[i].ma_30 = MeanPrice(out, Window(out, rk, i, Window30))

\* Two interleaved assets; a row with more than 30 rows of its asset up to
\* it, whose 30-row mean differs from its 7-row mean and from the mean of
\* all the rows up to it.
C4_Witness ==
    /\ Done
    /\ \E i, j \in Rows(out) :
          /\ j < i /\ out[j].coin # out[i].coin
          /\ Cardinality(Earlier(out, i)) >= Window30
          /\ out[i].ma_30 # out[i].ma_7
          /\ out[i].ma_30 # MeanPrice(out, Earlier(out, i) \cup {i})

(***************************************************************************)
(* C7: per-asset independence.  Removing every row of one asset from the    *)
(* input leaves the five derived columns of every row of the other assets   *)
(* unchanged.                                                               *)
(***************************************************************************)
\* The input without the rows of coin b (the rows left keep their order).
Without(t, b) ==
    LET F[i \in 0..Len(t)] ==
            IF i = 0 THEN <<>>
            ELSE IF t[i].coin = b THEN F[i - 1] ELSE Append(F[i - 1], t[i])
    IN F[Len(t)]

SameFeatures(r1, r2) ==
    /\ r1.daily_return = r2.daily_return
    /\ r1.ma_7 = r2.ma_7
    /\ r1.ma_30 = r2.ma_30
    /\ r1.volatility_30d = r2.volatility_30d
    /\ r1.cumulative_return = r2.cumulative_return

C7_PerAssetIndependence ==
    Done =>
        \A b \in CoinSet :
            \A alone \in ProcessDataResults(Without(df, b)) :
                \A i \in Rows(out) :
                    out[i].coin # b =>
                        \E k \in Rows(alone) :
                            /\ SameKey(alone[k], out[i])
                            /\ SameFeatures(alone[k], out[i])

\* An asset with three rows and a defined volatility, with a row of the
\* other asset between two of them both in the input and in the output.
C7_Witness ==
    /\ Done
    /\ \E i, j, k \in Rows(out) :
          /\ i < j /\ j < k
          /\ out[i].coin = out[k].coin /\ out[j].coin # out[i].coin
          /\ out[k].volatility_30d.k = "sqrt"
          /\ out[k].daily_return.k = "f" /\ out[k].daily_return.n # 0
    /\ \E i, j, k \in Rows(df) :
          /\ i < j /\ j < k
          /\ df[i].coin = df[k].coin /\ df[j].coin # df[i].coin

(***************************************************************************)
(* C1: cumulative_return of a row is the product of (1 + daily_return)      *)
(* over the rows of its asset up to it, the null return of the asset's      *)
(* first row counting as a factor of 1; so it is 1 on every first row.      *)
(***************************************************************************)
RECURSIVE ClaimedProduct(_, _)
ClaimedProduct(t, S) ==
    IF S = {} THEN Num(1)
    ELSE LET j == Latest(t, S)
         IN FMul(ClaimedProduct(t, S \ {j}),
                 IF Earlier(t, j) = {} THEN Num(1)
                 ELSE FAdd(Num(1), t[j].daily_return))

C1_CumulativeReturn ==
    Done =>
        \A i \in Rows(out) :
            out[i].cumulative_return =
                ClaimedProduct(out, Earlier(out, i) \cup {i})

(***************************************************************************)
(* C5: volatility_30d is null exactly when fewer than 2 non-null            *)
(* daily_return values of the asset fall in the trailing 30 rows; otherwise *)
(* it is the sample standard deviation of exactly those returns.  Hence,    *)
(* for positive prices, null on the first two rows and on no later one.     *)
(***************************************************************************)
NonNullReturns(t, rk, i) ==
    {j \in Window(t, rk, i, Window30) : ~IsNaN(t[j].daily_return)}

RECURSIVE SumReturns(_, _)
SumReturns(t, S) ==
    IF S = {} THEN Num(0)
    ELSE LET j == CHOOSE j \in S : TRUE
         IN FAdd(t[j].daily_return, SumReturns(t, S \ {j}))

RECURSIVE SumSquares(_, _, _)
SumSquares(t, S, mean) ==
    IF S = {} THEN Num(0)
    ELSE LET j == CHOOSE j \in S : TRUE
             dev == FSub(t[j].daily_return, mean)
         IN FAdd(FMul(dev, dev), SumSquares(t, S \ {j}, mean))

\* The sample (N - 1) standard deviation of the returns of the rows S.
SampleStd(t, S) ==
    LET mean == FDiv(SumReturns(t, S), Num(Cardinality(S)))
    IN FSqrt(FDiv(SumSquares(t, S, mean), Num(Cardinality(S) - 1)))

C5_Volatility ==
    Done =>
        LET rk == DateRank(out)
        IN \A i \in Rows(out) :
              LET R == NonNullReturns(out, rk, i)
              IN /\ IsNaN(out[i].volatility_30d) <=> Cardinality(R) < 2
                 /\ Cardinality(R) >= 2
                        => out[i].volatility_30d = SampleStd(out, R)
                 /\ AssetPositive(out, out[i].coin)
                        => (IsNaN(out[i].volatility_30d) <=> rk[i] <= 2)

(***************************************************************************)
(* C9: when the price of the preceding row of the asset is exactly 0,       *)
(* daily_return is a non-finite value (not null, not 0), and every later    *)
(* row of the asset whose 30-row window or running product includes that    *)
(* row has a volatility_30d and a cumulative_return that are not finite     *)
(* numbers: the value is not dropped or replaced.                           *)
(***************************************************************************)
IsNumber(x) == x.k = "f" \/ x.k = "sqrt"

C9_ZeroPricePropagation ==
    Done =>
        LET rk == DateRank(out)
        IN \A i \in Rows(out) :
              LET E == Earlier(out, i)
              IN (E # {} /\ out[Latest(out, E)].price = 0) =>
                    /\ IsInf(out[i].daily_return)
                    /\ \A k \in Rows(out) :
                          (out[k].coin = out[i].coin /\ rk[k] >= rk[i]) =>
                              /\ ~IsNumber(out[k].cumulative_return)
                              /\ rk[k] - Window30 < rk[i]
                                    => ~IsNumber(out[k].volatility_30d)


(***************************************************************************)
(* C8: a failed fetch of one asset, of whatever kind, only skips that       *)
(* asset: the run is never aborted, every configured asset is fetched, and  *)
(* a table is returned when some asset succeeded.                           *)
(***************************************************************************)
Ended == pc = "returned" \/ pc = "raised"

C8_FetchFailureSkipsOnlyThatAsset ==
    Ended =>
        /\ pc # "raised"
        /\ fetched = coins
        /\ all_data # <<>> => result = "table"

(***************************************************************************)
(* C10: when no asset yielded rows the run returns None, without calling    *)
(* process_data or save_data and without raising; when some asset did, it   *)
(* returns the processed table, after one call of process_data and one      *)
(* call of save_data if and only if save is set.                            *)
(***************************************************************************)
C10_NoDataOutcome ==
    Ended =>
        /\ all_data = <<>> =>
              /\ pc = "returned" /\ result = "None"
              /\ processed = 0 /\ saved = 0
        /\ all_data # <<>> =>
              /\ pc = "returned" /\ result = "table"
              /\ processed = 1
              /\ saved = (IF save THEN 1 ELSE 0)


====
